---- MODULE Spec2Model ----
(***************************************************************************)
(* Model of src/src/hr/always-one-admin.js: the hr/always-one-admin plugin *)
(* (updateAdmins on join/leave) and the hr/mute plugin (muteMap, the four  *)
(* commands, the chat hook and the persist/restore hooks).                 *)
(*                                                                         *)
(* JavaScript values are records [t, s, n]:                                *)
(*   t = "str"   a string, s its characters                                *)
(*   t = "num"   an integer number n                                       *)
(*   t = "frac"  a finite number that is not an integer (1.5)              *)
(*   t = "big"   a finite number of magnitude Limit or more                *)
(*   t = "inf"   Infinity (n = 1) or -Infinity (n = -1)                    *)
(*   t = "nan"   NaN                                                       *)
(*   t = "null"  null                                                      *)
(* Persisted data is a record [t, m]:                                      *)
(*   t = "undefined"  nothing is held                                      *)
(*   t = "json"       the JSON text of an object, m its members in order   *)
(*   t = "text"       text that is no JSON                                 *)
(*   t = "null", "number", "list", "string"  the JSON text of such a       *)
(*                    value, m the elements of the list or string          *)
(* A Map is a sequence of [key, value] entries in insertion order.         *)
(* A mute snapshot keeps the fields of the PlayerObject the plugin reads   *)
(* back (id, name, conn).                                                  *)
(***************************************************************************)
EXTENDS Integers, Sequences, FiniteSets, TLC

VARIABLES
  players,                  \* room.getPlayerList(): sequence of PlayerObjects, host first
  nextId,                   \* id the room gives to the next player who joins
  roles,                    \* sav/roles: player id -> set of role names
  rolesAvailable,           \* room.getPlugin("sav/roles") is defined
  allowTalkingWhenCaptain,  \* config.allowTalkingWhenCaptain
  persistence,              \* room.getPlugin("hhm/persistence") is defined and stores data
  muteMap,                  \* the module-level Map conn -> PlayerObject
  blob,                     \* data held by hhm/persistence for this plugin
  restoring,                \* data the host read at a restart and has yet to hand to
                            \* room.onRestore, NotRestoring otherwise
  last,                     \* the handler that ran last: [op, by, arg, ret, removed, size, val]
  anns,                     \* room.sendAnnouncement calls of the handler that ran last
  muted                     \* history: identities muted by a command and not removed since

vars == <<players, nextId, roles, rolesAvailable, allowTalkingWhenCaptain, persistence,
          restoring,
          muteMap, blob, last, anns, muted>>

----------------------------------------------------------------------------
(* Bounds of the model *)

MaxId == 2         \* ids 1..MaxId are handed out to joining players

Conns == {"cA", "cB"}         \* identity tokens of joining players
HostConn == "cH"
PlayerNames == <<"Ann", "Bob", "Cem", "Dan", "Eva", "Fay", "Gus", "Hal", "Ida">>
NameOf(id) == PlayerNames[id]   \* the nick of the player who joins with that id
Teams == {0, 1, 2}            \* spectators, red, blue

----------------------------------------------------------------------------
(* Configuration: room.pluginSpec.config *)

protectedRoles == <<"host", "admin">>
allowedRoles == <<"admin", "admin">>
muteMessage == "You cannot send messages because you are muted."

----------------------------------------------------------------------------
(* JavaScript values *)

Str(s) == [t |-> "str", s |-> s, n |-> 0]
Num(n) == [t |-> "num", s |-> <<>>, n |-> n]
NaN == [t |-> "nan", s |-> <<>>, n |-> 0]
Frac == [t |-> "frac", s |-> <<>>, n |-> 0]
Null == [t |-> "null", s |-> <<>>, n |-> 0]
Big == [t |-> "big", s |-> <<>>, n |-> 0]
Inf(sign) == [t |-> "inf", s |-> <<>>, n |-> sign]

DigitChars == <<"0", "1", "2", "3", "4", "5", "6", "7", "8", "9">>

IsDigit(c) == c \in {"0", "1", "2", "3", "4", "5", "6", "7", "8", "9"}

DigitVal(c) == (CHOOSE i \in 1..10 : DigitChars[i] = c) - 1

RECURSIVE DigitsVal(_)
DigitsVal(s) ==
  IF s = <<>> THEN 0
  ELSE 10 * DigitsVal(SubSeq(s, 1, Len(s) - 1)) + DigitVal(s[Len(s)])

AllDigits(s) == \A i \in 1..Len(s) : IsDigit(s[i])

\* the strings of the model are sequences of ASCII characters.  Of the
\* WhiteSpace and LineTerminator characters that String.prototype.trim and
\* StringToNumber strip, the ASCII ones are the space, tab, line feed,
\* carriage return, form feed and, written as the character itself, line
\* tabulation (U+000B).  The others (U+00A0, U+1680, U+2000..U+200A,
\* U+2028, U+2029, U+202F, U+205F, U+3000, U+FEFF) lie outside ASCII and are
\* not characters of the strings of the model.
WhiteSpaceChars == {" ", "\t", "\n", "\r", "\f", ""}

\* the string without its leading and trailing white space
RECURSIVE Trim(_)
Trim(s) ==
  IF s = <<>> THEN s
  ELSE IF s[1] \in WhiteSpaceChars THEN Trim(Tail(s))
  ELSE IF s[Len(s)] \in WhiteSpaceChars THEN Trim(SubSeq(s, 1, Len(s) - 1))
  ELSE s

\* the digits of the bases 2, 8 and 16, small and capital letters
LowerDigits == <<"0", "1", "2", "3", "4", "5", "6", "7", "8", "9", "a", "b", "c", "d", "e", "f">>
UpperDigits == <<"0", "1", "2", "3", "4", "5", "6", "7", "8", "9", "A", "B", "C", "D", "E", "F">>

IsRadixDigit(c, radix) == \E i \in 1..radix : LowerDigits[i] = c \/ UpperDigits[i] = c

RadixDigitVal(c) == (CHOOSE i \in 1..16 : LowerDigits[i] = c \/ UpperDigits[i] = c) - 1

RECURSIVE StripZeros(_)
StripZeros(s) == IF s # <<>> /\ s[1] = "0" THEN StripZeros(Tail(s)) ELSE s

RECURSIVE StripTrailingZeros(_)
StripTrailingZeros(s) ==
  IF s # <<>> /\ s[Len(s)] = "0" THEN StripTrailingZeros(SubSeq(s, 1, Len(s) - 1)) ELSE s

\* the number of decimal digits the string starts with
RECURSIVE LeadingDigits(_)
LeadingDigits(s) == IF s # <<>> /\ IsDigit(s[1]) THEN 1 + LeadingDigits(Tail(s)) ELSE 0

RECURSIVE Pow(_, _)
Pow(b, e) == IF e = 0 THEN 1 ELSE b * Pow(b, e - 1)

\* integers of this size and beyond are kept as Big
Limit == Pow(2, 28)

\* the value of the digits in that base, Limit when it is Limit or more
RECURSIVE RadixVal(_, _)
RadixVal(s, radix) ==
  IF s = <<>> THEN 0
  ELSE LET hi == RadixVal(SubSeq(s, 1, Len(s) - 1), radix)
       IN IF hi >= Limit \div radix THEN Limit
          ELSE hi * radix + RadixDigitVal(s[Len(s)])

\* decimal exponents beyond these saturate: every number of the model with
\* such an exponent is infinite or zero
ExpCap == 9999

\* the leading digits of 2^1024 - 2^970, the least value that rounds to
\* Infinity, which has 309 digits before the point
OverflowDigits == <<"1", "7", "9", "7", "6", "9", "3", "1", "3", "4", "8", "6", "2", "3", "1", "5", "8">>
OverflowPoint == 309

\* the leading digits of 2^-1075, the greatest value that rounds to 0, which
\* has 323 zeros after the point
UnderflowDigits == <<"2", "4", "7", "0", "3", "2", "8", "2", "2", "9", "2", "0", "6", "2", "3", "2", "7">>
UnderflowPoint == 0 - 323

\* the digits d, followed by zeros, are beyond the digits of the threshold
Above(d, threshold) ==
  LET at(i) == IF i <= Len(d) THEN DigitVal(d[i]) ELSE 0
  IN \E i \in 1..Len(threshold) :
       /\ at(i) > DigitVal(threshold[i])
       /\ \A j \in 1..(i - 1) : at(j) = DigitVal(threshold[j])

\* the double nearest to sign * 0.digits * 10^point, for digits without
\* leading or trailing zeros, up to 15 of them: an integer below Limit is
\* itself (-0 is 0), a larger finite number is Big, any other finite number
\* is Frac
Rounded(sign, digits, point) ==
  IF digits = <<>> THEN Num(0)
  ELSE IF point > OverflowPoint \/ (point = OverflowPoint /\ Above(digits, OverflowDigits))
  THEN Inf(sign)
  ELSE IF point < UnderflowPoint \/ (point = UnderflowPoint /\ ~Above(digits, UnderflowDigits))
  THEN Num(0)
  ELSE IF point < Len(digits) THEN Frac
  ELSE IF point > 9 THEN Big
  ELSE LET n == DigitsVal(digits) * Pow(10, point - Len(digits))
       IN IF n >= Limit THEN Big ELSE Num(sign * n)

\* the value of the digits of an exponent without leading zeros
ExponentVal(digits) == IF Len(digits) > 4 THEN ExpCap ELSE DigitsVal(digits)

\* sign * 0.mantissa * 10^(intLen + exp), the mantissa being the digits
\* before and after the point
Scaled(sign, mantissa, intLen, exp) ==
  Rounded(sign, StripTrailingZeros(StripZeros(mantissa)),
          intLen - (Len(mantissa) - Len(StripZeros(mantissa))) + exp)

\* ExponentPart after its e or E: an optional sign and digits
ExponentPart(sign, mantissa, intLen, e) ==
  LET expDigits == IF e # <<>> /\ e[1] \in {"+", "-"} THEN Tail(e) ELSE e
  IN IF expDigits = <<>> \/ ~AllDigits(expDigits) THEN NaN
     ELSE Scaled(sign, mantissa, intLen,
                 (IF e[1] = "-" THEN 0 - 1 ELSE 1) * ExponentVal(StripZeros(expDigits)))

\* the literal after its digits and point: nothing, or an exponent part
AfterMantissa(sign, mantissa, intLen, rest) ==
  IF mantissa = <<>> THEN NaN
  ELSE IF rest = <<>> THEN Scaled(sign, mantissa, intLen, 0)
  ELSE IF rest[1] \in {"e", "E"} THEN ExponentPart(sign, mantissa, intLen, Tail(rest))
  ELSE NaN

\* the literal after its intLen leading digits: an optional point with
\* fracLen digits
AfterInteger(sign, s, intLen, fracLen) ==
  IF intLen < Len(s) /\ s[intLen + 1] = "."
  THEN AfterMantissa(sign, SubSeq(s, 1, intLen) \o SubSeq(s, intLen + 2, intLen + 1 + fracLen),
                     intLen, SubSeq(s, intLen + 2 + fracLen, Len(s)))
  ELSE AfterMantissa(sign, SubSeq(s, 1, intLen), intLen, SubSeq(s, intLen + 1, Len(s)))

\* StrUnsignedDecimalLiteral with the sign in front of it: digits with an
\* optional point and fraction, or a point and a fraction, and an optional
\* exponent e or E with a signed integer; Infinity
DecimalAfter(sign, s, intLen) ==
  AfterInteger(sign, s, intLen, LeadingDigits(SubSeq(s, intLen + 2, Len(s))))

DecimalToNumber(sign, s) ==
  IF s = <<"I", "n", "f", "i", "n", "i", "t", "y">> THEN Inf(sign)
  ELSE DecimalAfter(sign, s, LeadingDigits(s))

\* NonDecimalIntegerLiteral: 0x, 0o or 0b, in either case, with digits of
\* that base
RadixOf(s) ==
  IF Len(s) >= 3 /\ s[1] = "0"
  THEN CASE s[2] \in {"x", "X"} -> 16
         [] s[2] \in {"o", "O"} -> 8
         [] s[2] \in {"b", "B"} -> 2
         [] OTHER -> 0
  ELSE 0

\* +s for a string s of up to 64 characters with at most 15 significant
\* decimal digits: white space around the literal is skipped, the empty
\* string is 0, a literal of the StringNumericLiteral grammar is its value
\* and any other text is NaN.
StringToNumber(s) ==
  LET t == Trim(s)
      radix == RadixOf(t)
      body == SubSeq(t, 3, Len(t))
  IN IF t = <<>> THEN Num(0)
     ELSE IF radix # 0
     THEN IF \A i \in 1..Len(body) : IsRadixDigit(body[i], radix)
          THEN LET n == RadixVal(StripZeros(body), radix)
               IN IF n >= Limit THEN Big ELSE Num(n)
          ELSE NaN
     ELSE DecimalToNumber(IF t[1] = "-" THEN 0 - 1 ELSE 1,
                          IF t[1] \in {"+", "-"} THEN Tail(t) ELSE t)

\* the unary plus: +v
ToNumber(v) ==
  CASE v.t = "str" -> StringToNumber(v.s)
    [] v.t = "null" -> Num(0)
    [] v.t = "undefined" -> NaN
    [] OTHER -> v

IsNaN(v) == v.t = "nan"

StartsWithHash(v) == v.t = "str" /\ Len(v.s) >= 1 /\ v.s[1] = "#"

\* typeof a === "number" && typeof b === "number" && a === b, for an integer a
StrictEqInt(i, v) == v.t = "num" /\ v.n = i

----------------------------------------------------------------------------
(* Map operations *)

MapKeys(m) == {m[i].key : i \in 1..Len(m)}

MapHas(m, k) == \E i \in 1..Len(m) : m[i].key = k

MapIndex(m, k) == CHOOSE i \in 1..Len(m) : m[i].key = k

MapGet(m, k) == m[MapIndex(m, k)].value

\* Map.prototype.set: an existing key keeps its position, its value is replaced
\* variant with a seeded fault: every set adds an entry
MapSetAppend(m, k, v) == Append(m, [key |-> k, value |-> v])

MapSet(m, k, v) ==
  IF MapHas(m, k)
  THEN [m EXCEPT ![MapIndex(m, k)] = [key |-> k, value |-> v]]
  ELSE Append(m, [key |-> k, value |-> v])

MapDelete(m, k) == SelectSeq(m, LAMBDA e : e.key # k)

----------------------------------------------------------------------------
(* The room: player directory and role service *)

Host == [id |-> 0, name |-> "Host", conn |-> HostConn, team |-> 0, admin |-> FALSE]

NoPlayer == [id |-> -1, name |-> "", conn |-> "", team |-> 0, admin |-> FALSE]

InRoom(id) == \E i \in 1..Len(players) : players[i].id = id

\* room.getPlayer(id): the player with that id, or null (NoPlayer)
getPlayer(v) ==
  IF v.t = "num" /\ InRoom(v.n)
  THEN players[CHOOSE i \in 1..Len(players) : players[i].id = v.n]
  ELSE NoPlayer

\* playerList.find((p) => p.team === team): the first player of that team
FindByTeam(list, team) ==
  IF \E i \in 1..Len(list) : list[i].team = team
  THEN list[CHOOSE i \in 1..Len(list) :
              list[i].team = team /\ \A j \in 1..(i - 1) : list[j].team # team]
  ELSE NoPlayer

Found(p) == p.id # -1

\* the mute snapshot of a PlayerObject
Snapshot(p) == [id |-> p.id, name |-> p.name, conn |-> p.conn]

\* null where a snapshot is expected
NoSnapshot == [id |-> -1, name |-> "", conn |-> ""]

hasPlayerRole(playerId, role) == role \in roles[playerId]

ensurePlayerRoles(playerId, roleList) ==
  \E i \in 1..Len(roleList) : hasPlayerRole(playerId, roleList[i])

----------------------------------------------------------------------------
(* hr/always-one-admin *)

\* the player list after updateAdmins()
\* variant with a seeded fault: the host is not filtered out of the list
updateAdminsNoFilter(list) ==
  IF Len(list) = 0 THEN list
  ELSE IF \E i \in 1..Len(list) : list[i].admin THEN list
  ELSE [i \in 1..Len(list) |->
          IF list[i].id = list[1].id
          THEN [list[i] EXCEPT !.admin = TRUE] ELSE list[i]]

\* variant with a seeded fault: every player of the filtered list is made admin
updateAdminsAll(list) ==
  LET nonHost == SelectSeq(list, LAMBDA p : p.id # 0) IN
  IF Len(nonHost) = 0 THEN list
  ELSE IF \E i \in 1..Len(nonHost) : nonHost[i].admin THEN list
  ELSE [i \in 1..Len(list) |->
          IF list[i].id # 0
          THEN [list[i] EXCEPT !.admin = TRUE] ELSE list[i]]

updateAdmins(list) ==
  LET nonHost == SelectSeq(list, LAMBDA p : p.id # 0) IN
  IF Len(nonHost) = 0 THEN list
  ELSE IF \E i \in 1..Len(nonHost) : nonHost[i].admin THEN list
  ELSE [i \in 1..Len(list) |->
          IF list[i].id = nonHost[1].id
          THEN [list[i] EXCEPT !.admin = TRUE] ELSE list[i]]

----------------------------------------------------------------------------
(* hr/mute: helpers *)

\* isNaN(pId) ? null : pId
NullIfNaN(pId) == IF IsNaN(pId) THEN Null ELSE pId

parseId(id) ==
  IF IsNaN(ToNumber(id))
  THEN IF StartsWithHash(id)
       THEN NullIfNaN(StringToNumber(SubSeq(id.s, 2, Len(id.s))))
       ELSE Null
  ELSE ToNumber(id)

Undefined == [t |-> "undefined", m |-> <<>>]

\* the host has no room.onRestore call to make
NotRestoring == [t |-> "none", m |-> <<>>]

\* obj[key] = value for every entry in turn (Map.set on the way back): a key
\* that is present keeps its place and takes the new value, a new key goes
\* last.  Identity tokens are hex strings of an address, never array-index
\* keys, so the property order of the plain object is insertion order.
RECURSIVE AssignAll(_, _)
AssignAll(obj, entries) ==
  IF entries = <<>> THEN obj
  ELSE AssignAll(MapSet(obj, Head(entries).key, Head(entries).value), Tail(entries))

\* variant with a seeded fault: the last entry is left out
serializeMuteMapDropLast(m) ==
  [t |-> "json", m |-> AssignAll(<<>>, SubSeq(m, 1, Len(m) - 1))]

\* JSON.stringify of the plain object filled from the Map: the JSON text,
\* given by its members in order
serializeMuteMap(m) == [t |-> "json", m |-> AssignAll(<<>>, m)]

\* a value that is no PlayerObject: what the plugin reads of it, its name and
\* its conn, is undefined.  NotAPlayer is a truthy one (a number other than
\* 0, a character), FalsyValue a falsy one (the number 0).
NotAPlayer == [id |-> -2, name |-> "undefined", conn |-> ""]
FalsyValue == [id |-> -3, name |-> "undefined", conn |-> ""]

\* !value for a PlayerObject, null or a value that is no PlayerObject
Falsy(value) == value = NoSnapshot \/ value = FalsyValue

\* JSON.parse(data) raises a SyntaxError for text that is no JSON, and
\* Object.getOwnPropertyNames(null) raises a TypeError
deserializeThrows(data) == data.t \in {"text", "null"}

\* Object.getOwnPropertyNames(obj) with obj[key]: the members of an object;
\* the elements and the length of a list or of a string, where the length 0
\* is falsy; nothing for a number
OwnProperties(data) ==
  CASE data.t = "json" -> data.m
    [] data.t \in {"list", "string"} ->
         data.m \o <<[key |-> "length",
                      value |-> IF data.m = <<>> THEN FalsyValue ELSE NotAPlayer]>>
    [] OTHER -> <<>>

\* JSON.parse, then one Map.set per own property name
deserializeMuteMap(data) == AssignAll(<<>>, OwnProperties(data))

handlePersistData == serializeMuteMap(muteMap)

\* hhm/persistence persistPluginData(room): stores what room.onPersist() returns
persistPluginData(m) == serializeMuteMap(m)

\* the Map after handleRestoreData(data)
\* variant with a seeded fault: the decoded entries are set into the Map that
\* is there
handleRestoreDataMerge(m, data) ==
  IF data.t = "undefined" \/ deserializeThrows(data) THEN m
  ELSE AssignAll(m, deserializeMuteMap(data))

\* the assignment to muteMap is not reached when deserializeMuteMap throws
handleRestoreData(m, data) ==
  IF data.t = "undefined" \/ deserializeThrows(data) THEN m
  ELSE deserializeMuteMap(data)

\* room.getPlugin("hhm/persistence").persistPluginData(room) raises: the
\* plugin is not loaded (a TypeError on undefined) or it fails to store
persistThrows == ~persistence

\* [map, blob, threw] after mutePlayer(player): the Map is set before the
\* data is persisted; threw tells that the call raised
\* variant with a seeded fault: the Map is keyed by the nick
mutePlayerByName(m, b, player) ==
  LET m2 == MapSet(m, player.name, Snapshot(player))
  IN [map |-> m2, blob |-> IF persistThrows THEN b ELSE persistPluginData(m2),
      threw |-> persistThrows]

\* variant with a seeded fault: the entry is deleted before it is set
mutePlayerReinsert(m, b, player) ==
  LET m2 == MapSet(MapDelete(m, player.conn), player.conn, Snapshot(player))
  IN [map |-> m2, blob |-> IF persistThrows THEN b ELSE persistPluginData(m2),
      threw |-> persistThrows]

mutePlayer(m, b, player) ==
  LET m2 == MapSet(m, player.conn, Snapshot(player))
  IN [map |-> m2, blob |-> IF persistThrows THEN b ELSE persistPluginData(m2),
      threw |-> persistThrows]

findPlayerInRoomWithConn(conn) ==
  IF \E i \in 1..Len(players) : players[i].conn = conn
  THEN players[CHOOSE i \in 1..Len(players) :
                 players[i].conn = conn /\ \A j \in 1..(i - 1) : players[j].conn # conn]
  ELSE NoPlayer

\* [map, blob, removed, threw] after removeMute(indexOrPlayerId); removed is
\* the returned PlayerObject, NoSnapshot for null or when the call raised
\* variant with a seeded fault: the mute number counts from one
removeMuteOneBased(m, b, indexOrPlayerId) ==
  IF \E i \in 1..Len(m) : StrictEqInt(i, indexOrPlayerId)
  THEN LET key == m[indexOrPlayerId.n].key
           m2 == MapDelete(m, key)
       IN [map |-> m2, blob |-> IF persistThrows THEN b ELSE persistPluginData(m2),
           removed |-> IF persistThrows THEN NoSnapshot ELSE MapGet(m, key),
           threw |-> persistThrows]
  ELSE [map |-> m, blob |-> b, removed |-> NoSnapshot, threw |-> FALSE]

\* the branch of removeMute for "#<id>", removedPlayer being
\* room.getPlayer(parseId(indexOrPlayerId))
removeMuteOfPlayer(m, b, removedPlayer) ==
  IF ~Found(removedPlayer) \/ ~MapHas(m, removedPlayer.conn)
  THEN [map |-> m, blob |-> b, removed |-> NoSnapshot, threw |-> FALSE]
  ELSE LET m2 == MapDelete(m, removedPlayer.conn)
       IN [map |-> m2, blob |-> IF persistThrows THEN b ELSE persistPluginData(m2),
           removed |-> IF persistThrows THEN NoSnapshot ELSE Snapshot(removedPlayer),
           threw |-> persistThrows]

removeMute(m, b, indexOrPlayerId) ==
  IF StartsWithHash(indexOrPlayerId)
  THEN removeMuteOfPlayer(m, b, getPlayer(parseId(indexOrPlayerId)))
  ELSE IF IsNaN(ToNumber(indexOrPlayerId))
  THEN [map |-> m, blob |-> b, removed |-> NoSnapshot, threw |-> FALSE]
  ELSE IF \E i \in 0..(Len(m) - 1) : StrictEqInt(i, indexOrPlayerId)
  THEN LET i == CHOOSE j \in 0..(Len(m) - 1) : StrictEqInt(j, indexOrPlayerId)
           key == m[i + 1].key
           m2 == MapDelete(m, key)
       IN [map |-> m2, blob |-> IF persistThrows THEN b ELSE persistPluginData(m2),
           removed |-> IF persistThrows THEN NoSnapshot ELSE MapGet(m, key),
           threw |-> persistThrows]
  ELSE [map |-> m, blob |-> b, removed |-> NoSnapshot, threw |-> FALSE]

\* variant with a seeded fault: only the red team has a captain
isPlayerTeamCaptainRedOnly(player) ==
  LET redTeamCap == FindByTeam(players, 1)
  IN Found(redTeamCap) /\ redTeamCap.id = player.id

isPlayerTeamCaptain(player) ==
  LET redTeamCap == FindByTeam(players, 1)
      blueTeamCap == FindByTeam(players, 2)
  IN \/ (Found(redTeamCap) /\ redTeamCap.id = player.id)
     \/ (Found(blueTeamCap) /\ blueTeamCap.id = player.id)

ProtectedRolesIsArray == TRUE

\* variant with a seeded fault: the loop returns after the first role
isPlayerProtectedFirstRole(playerId) ==
  IF ~ProtectedRolesIsArray THEN "false"
  ELSE IF protectedRoles # <<>> /\ ~rolesAvailable THEN "throws"
  ELSE IF hasPlayerRole(playerId, protectedRoles[1]) THEN "true"
  ELSE "false"

\* "true" or "false" for what the function returns, "throws" where it
\* raises: room.getPlugin("sav/roles") is undefined when the plugin is not
\* loaded, and the first turn of the loop calls roles.hasPlayerRole on it
isPlayerProtected(playerId) ==
  IF ~ProtectedRolesIsArray THEN "false"
  ELSE IF protectedRoles # <<>> /\ ~rolesAvailable THEN "throws"
  ELSE IF \E i \in 1..Len(protectedRoles) : hasPlayerRole(playerId, protectedRoles[i])
  THEN "true"
  ELSE "false"

\* variant with a seeded fault: a missing role service lets everybody in
isPlayerAllowedToRunCommandOpen(player) ==
  ~rolesAvailable \/ ensurePlayerRoles(player.id, allowedRoles)

isPlayerAllowedToRunCommand(player) ==
  IF ~rolesAvailable THEN FALSE
  ELSE ensurePlayerRoles(player.id, allowedRoles)

----------------------------------------------------------------------------
(* hr/mute: handlers.  A handler's result is [map, blob, anns, ret]: the   *)
(* Map and the persisted data it leaves, the announcements it sends in     *)
(* order and the value it returns.                                         *)

Red == "0xff0000"
Green == "0x00ff00"

\* room.sendAnnouncement(msg, targetId, color); to = -1 is the null target
\* (everyone); name is the player name interpolated into msg, lines the
\* rendered list of the mutelist command
Ann(msg, name, to, color) ==
  [msg |-> msg, name |-> name, to |-> to, color |-> color, lines |-> <<>>]

Result(m, b, a, r) == [map |-> m, blob |-> b, anns |-> a, ret |-> r]

\* the mute command after its authorization check, player being
\* room.getPlayer(parseId(id))
mutePlayerOrRefuse(m, b, byPlayer, player) ==
  IF ~Found(player)
  THEN Result(m, b, <<Ann("No player with id", "", byPlayer.id, Red)>>, "undefined")
  ELSE IF isPlayerProtected(player.id) = "throws"
  THEN Result(m, b, <<>>, "throws")
  ELSE IF isPlayerProtected(player.id) = "true"
  THEN Result(m, b, <<Ann("This player has immunity for mutes.", "", byPlayer.id, Red)>>,
              "undefined")
  ELSE LET r == mutePlayer(m, b, player) IN
    IF r.threw THEN Result(r.map, r.blob, <<>>, "throws")
    ELSE Result(r.map, r.blob,
                <<Ann("Player muted.", player.name, byPlayer.id, Green),
                Ann("You have been muted.", "", player.id, Red)>>,
                "undefined")

onCommand1_mute(m, b, byPlayer, id) ==
  IF ~isPlayerAllowedToRunCommand(byPlayer) THEN Result(m, b, <<>>, "undefined")
  ELSE mutePlayerOrRefuse(m, b, byPlayer, getPlayer(parseId(id)))

\* variant with a seeded fault: the error goes to everyone in the room
onCommand1_unmuteBroadcast(m, b, byPlayer, muteNumber) ==
  IF ~isPlayerAllowedToRunCommand(byPlayer) THEN Result(m, b, <<>>, "undefined")
  ELSE LET r == removeMute(m, b, muteNumber)
           unmutedPlayer == r.removed IN
    IF r.threw THEN Result(r.map, r.blob, <<>>, "throws")
    ELSE IF Falsy(unmutedPlayer)
    THEN Result(r.map, r.blob, <<Ann("Could not unmute", "", -1, Red)>>,
                "undefined")
    ELSE LET playerInRoom == findPlayerInRoomWithConn(unmutedPlayer.conn) IN
      Result(r.map, r.blob,
             <<Ann("Player unmuted.", unmutedPlayer.name, byPlayer.id, Green)>>
             \o (IF Found(playerInRoom)
                 THEN <<Ann("You have been unmuted.", "", playerInRoom.id, Green)>>
                 ELSE <<>>),
             "undefined")

\* the unmute command after its authorization check, r being what
\* removeMute(muteNumber) did and returned
announceUnmute(byPlayer, r) ==
  LET unmutedPlayer == r.removed IN
    IF r.threw THEN Result(r.map, r.blob, <<>>, "throws")
    ELSE IF Falsy(unmutedPlayer)
    THEN Result(r.map, r.blob, <<Ann("Could not unmute", "", byPlayer.id, Red)>>,
                "undefined")
    ELSE LET playerInRoom == findPlayerInRoomWithConn(unmutedPlayer.conn) IN
      Result(r.map, r.blob,
             <<Ann("Player unmuted.", unmutedPlayer.name, byPlayer.id, Green)>>
             \o (IF Found(playerInRoom)
                 THEN <<Ann("You have been unmuted.", "", playerInRoom.id, Green)>>
                 ELSE <<>>),
             "undefined")

onCommand1_unmute(m, b, byPlayer, muteNumber) ==
  IF ~isPlayerAllowedToRunCommand(byPlayer) THEN Result(m, b, <<>>, "undefined")
  ELSE announceUnmute(byPlayer, removeMute(m, b, muteNumber))

onCommand0_clearmutes(m, b, byPlayer) ==
  IF ~isPlayerAllowedToRunCommand(byPlayer) THEN Result(m, b, <<>>, "undefined")
  ELSE Result(<<>>, b, <<Ann("All mutes cleared!", "", -1, Green)>>, "undefined")

\* p.name raises a TypeError for a value p of the Map that is null
mutelistThrows(m) == \E i \in 1..Len(m) : m[i].value = NoSnapshot

\* variant with a seeded fault: the mute numbers are shown counting from one
onCommand0_mutelistOneBased(m, b, byPlayer) ==
  IF ~isPlayerAllowedToRunCommand(byPlayer) THEN Result(m, b, <<>>, "undefined")
  ELSE IF Len(m) = 0
  THEN Result(m, b, <<Ann("No muted players.", "", byPlayer.id, Red)>>, "undefined")
  ELSE IF mutelistThrows(m)
  THEN Result(m, b, <<Ann("MUTE_NUMBER - PLAYER", "", byPlayer.id, Green)>>, "throws")
  ELSE Result(m, b,
              <<Ann("MUTE_NUMBER - PLAYER", "", byPlayer.id, Green),
                [msg |-> "mutelist", name |-> "", to |-> byPlayer.id, color |-> Green,
                 lines |-> [i \in 1..Len(m) |-> [index |-> i, name |-> m[i].value.name]]]>>,
              "undefined")

\* the heading is sent before the list is rendered: when rendering raises,
\* the heading is all the actor gets
onCommand0_mutelist(m, b, byPlayer) ==
  IF ~isPlayerAllowedToRunCommand(byPlayer) THEN Result(m, b, <<>>, "undefined")
  ELSE IF Len(m) = 0
  THEN Result(m, b, <<Ann("No muted players.", "", byPlayer.id, Red)>>, "undefined")
  ELSE IF mutelistThrows(m)
  THEN Result(m, b, <<Ann("MUTE_NUMBER - PLAYER", "", byPlayer.id, Green)>>, "throws")
  ELSE Result(m, b,
              <<Ann("MUTE_NUMBER - PLAYER", "", byPlayer.id, Green),
                [msg |-> "mutelist", name |-> "", to |-> byPlayer.id, color |-> Green,
                 lines |-> [i \in 1..Len(m) |-> [index |-> i - 1, name |-> m[i].value.name]]]>>,
              "undefined")

isMuted(m, player) == MapHas(m, player.conn)

\* variant with a seeded fault: the captain exception applies whatever the option says
handlePlayerChatAlwaysCaptain(m, b, player) ==
  IF isMuted(m, player)
  THEN IF isPlayerTeamCaptain(player)
       THEN Result(m, b, <<>>, "undefined")
       ELSE Result(m, b, <<Ann(muteMessage, "", player.id, Red)>>, "false")
  ELSE Result(m, b, <<>>, "undefined")

\* variant with a seeded fault: `if (isMuted)` tests the function, not its result
handlePlayerChatTruthy(m, b, player) ==
  IF allowTalkingWhenCaptain /\ isPlayerTeamCaptain(player)
  THEN Result(m, b, <<>>, "undefined")
  ELSE Result(m, b, <<Ann(muteMessage, "", player.id, Red)>>, "false")

handlePlayerChat(m, b, player) ==
  IF isMuted(m, player)
  THEN IF allowTalkingWhenCaptain /\ isPlayerTeamCaptain(player)
       THEN Result(m, b, <<>>, "undefined")
       ELSE Result(m, b, <<Ann(muteMessage, "", player.id, Red)>>, "false")
  ELSE Result(m, b, <<>>, "undefined")

----------------------------------------------------------------------------
(* Inputs *)

\* "#<id>" as the command dispatcher delivers it
HashId(i) == Str(<<"#", DigitChars[i + 1]>>)

IdArgs == {HashId(1), HashId(2)}

\* arguments of !mute: "#<id>", a bare id, an id as a hexadecimal literal,
\* text that is no id
MuteArgs == IdArgs \cup {Str(<<"2">>), Str(<<"0", "x", "1">>), Str(<<"a">>)}

\* arguments of !unmute: "#<id>", "#" with an id as a hexadecimal literal,
\* a mute number as text, text that is neither, and a mute number passed as
\* a number by a direct caller
UnmuteArgs ==
  IdArgs \cup {Str(<<"#", "0", "x", "1">>), Str(<<"0">>), Str(<<"1">>), Str(<<"a">>), Num(0), Num(1)}

NoArg == [t |-> "undefined", s |-> <<>>, n |-> 0]

\* op: the handler or event; by: the acting player's id; arg: the argument;
\* ret: the returned value, "throws" for an exception that leaves the handler;
\* removed: the PlayerObject removeMute returned; size: the number of entries
\* a store function found on entry; val: the value parseId returned
Env ==
  [op |-> "env", by |-> -1, arg |-> NoArg, ret |-> "undefined", removed |-> NoSnapshot,
   size |-> 0, val |-> NoArg]

Ran(op, by, arg, r) ==
  [op |-> op, by |-> by, arg |-> arg, ret |-> r.ret, removed |-> NoSnapshot,
   size |-> 0, val |-> NoArg]

InRoomPlayers == {players[i] : i \in 1..Len(players)}

HostRoles == [i \in 0..MaxId |-> IF i = 0 THEN {"host"} ELSE {}]

----------------------------------------------------------------------------
(* Initial state: the plugins are loaded into an empty room *)

Init ==
  /\ players = <<Host>>
  /\ nextId = 1
  /\ roles = HostRoles
  /\ rolesAvailable \in BOOLEAN
  /\ allowTalkingWhenCaptain = FALSE
  /\ persistence = TRUE
  /\ restoring = NotRestoring
  /\ muteMap = <<>>
  /\ blob = Undefined
  /\ last = Env
  /\ anns = <<>>
  /\ muted = {}

----------------------------------------------------------------------------
(* Room events *)

\* a player joins: the room appends it to the list and fires onPlayerJoin
PlayerJoin ==
  \E c \in Conns :
    /\ nextId <= MaxId
    /\ players' = updateAdmins(Append(players,
         [id |-> nextId, name |-> NameOf(nextId), conn |-> c, team |-> 0, admin |-> FALSE]))
    /\ nextId' = nextId + 1
    /\ last' = Env
    /\ anns' = <<>>
    /\ UNCHANGED <<roles, rolesAvailable, allowTalkingWhenCaptain, persistence, restoring, muteMap, blob, muted>>

\* a player leaves: the room removes it from the list and fires onPlayerLeave
PlayerLeave ==
  \E p \in InRoomPlayers :
    /\ p.id # 0
    /\ players' = updateAdmins(SelectSeq(players, LAMBDA q : q.id # p.id))
    /\ roles' = [roles EXCEPT ![p.id] = {}]
    /\ last' = Env
    /\ anns' = <<>>
    /\ UNCHANGED <<nextId, rolesAvailable, allowTalkingWhenCaptain, persistence, restoring, muteMap, blob, muted>>

\* a player moves to another team
TeamChange ==
  \E p \in InRoomPlayers, t \in Teams :
    /\ p.id # 0
    /\ t # p.team
    /\ players' = [i \in 1..Len(players) |->
                     IF players[i].id = p.id THEN [players[i] EXCEPT !.team = t]
                     ELSE players[i]]
    /\ last' = Env
    /\ anns' = <<>>
    /\ UNCHANGED <<nextId, roles, rolesAvailable, allowTalkingWhenCaptain, persistence, restoring, muteMap, blob, muted>>

\* sav/roles gives the admin role to a player (the host included) or takes
\* it away
RoleChange ==
  \E p \in InRoomPlayers :
    /\ roles' = [roles EXCEPT ![p.id] =
                   IF "admin" \in @ THEN @ \ {"admin"} ELSE @ \cup {"admin"}]
    /\ last' = Env
    /\ anns' = <<>>
    /\ UNCHANGED <<players, nextId, rolesAvailable, allowTalkingWhenCaptain, persistence, restoring, muteMap, blob, muted>>

----------------------------------------------------------------------------
(* Commands, chat and persistence *)

Frame == UNCHANGED <<players, nextId, roles, rolesAvailable, allowTalkingWhenCaptain, persistence, restoring>>

\* muted gains the identity when mutePlayer has set it into the Map, be it
\* that the command went on to its two announcements or that mutePlayer
\* raised afterwards, which is the one way the command raises for an actor
\* who passed the authorization
CmdMute(args) ==
  \E by \in InRoomPlayers, id \in args :
    \E r \in {onCommand1_mute(muteMap, blob, by, id)} :
       /\ muteMap' = r.map
       /\ blob' = r.blob
       /\ anns' = r.anns
       /\ last' = Ran("mute", by.id, id, r)
       /\ muted' = IF Len(r.anns) = 2 \/ r.ret = "throws"
                   THEN muted \cup {getPlayer(parseId(id)).conn}
                   ELSE muted
       /\ Frame

CmdUnmute(args) ==
  \E by \in InRoomPlayers, muteNumber \in args :
    \E r \in {onCommand1_unmute(muteMap, blob, by, muteNumber)} :
       /\ muteMap' = r.map
       /\ blob' = r.blob
       /\ anns' = r.anns
       /\ last' = [Ran("unmute", by.id, muteNumber, r) EXCEPT
                     !.removed = IF isPlayerAllowedToRunCommand(by)
                                 THEN removeMute(muteMap, blob, muteNumber).removed
                                 ELSE NoSnapshot]
       /\ muted' = muted \ (MapKeys(muteMap) \ MapKeys(r.map))
       /\ Frame

CmdClearmutes ==
  \E by \in InRoomPlayers :
    LET r == onCommand0_clearmutes(muteMap, blob, by)
    IN /\ muteMap' = r.map
       /\ blob' = r.blob
       /\ anns' = r.anns
       /\ last' = Ran("clearmutes", by.id, NoArg, r)
       /\ muted' = IF r.anns # <<>> THEN {} ELSE muted
       /\ Frame

CmdMutelist ==
  \E by \in InRoomPlayers :
    LET r == onCommand0_mutelist(muteMap, blob, by)
    IN /\ muteMap' = r.map
       /\ blob' = r.blob
       /\ anns' = r.anns
       /\ last' = Ran("mutelist", by.id, NoArg, r)
       /\ UNCHANGED muted
       /\ Frame

Chat ==
  \E p \in InRoomPlayers :
    LET r == handlePlayerChat(muteMap, blob, p)
    IN /\ muteMap' = r.map
       /\ blob' = r.blob
       /\ anns' = r.anns
       /\ last' = Ran("chat", p.id, NoArg, r)
       /\ UNCHANGED muted
       /\ Frame

\* another plugin asks room.isMuted(player)
IsMutedQuery ==
  \E p \in InRoomPlayers :
    /\ last' = [Env EXCEPT !.op = "isMuted", !.by = p.id,
                           !.ret = IF isMuted(muteMap, p) THEN "true" ELSE "false"]
    /\ anns' = <<>>
    /\ UNCHANGED <<muteMap, blob, muted>>
    /\ Frame

\* the persistence host asks for the data: room.onPersist()
Persist ==
  /\ blob' = handlePersistData
  /\ last' = [Env EXCEPT !.op = "persist"]
  /\ anns' = <<>>
  /\ UNCHANGED <<muteMap, muted>>
  /\ Frame

\* the room restarts: everybody is gone, the host reads the data it holds
\* and the plugin script is evaluated, which makes the Map empty and
\* registers the hooks.  The ids of the restarted room are numbered on, so
\* that a player id names one visit over the whole behaviour (the plugin
\* never reads the id of a snapshot).
Restart ==
  /\ players' = <<Host>>
  /\ roles' = HostRoles
  /\ muteMap' = <<>>
  /\ restoring' = blob
  /\ last' = [Env EXCEPT !.op = "load"]
  /\ anns' = <<>>
  /\ UNCHANGED <<nextId, blob, rolesAvailable, allowTalkingWhenCaptain, persistence, muted>>

\* the host calls room.onRestore(data) with the data it read at the restart;
\* room events and commands can come before this call
Restore ==
  /\ restoring # NotRestoring
  /\ muteMap' = handleRestoreData(muteMap, restoring)
  /\ restoring' = NotRestoring
  /\ muted' = muted \cap MapKeys(muteMap')
  /\ last' = [Env EXCEPT !.op = "restore",
                         !.ret = IF deserializeThrows(restoring) THEN "throws" ELSE "undefined"]
  /\ anns' = <<>>
  /\ UNCHANGED <<players, nextId, roles, rolesAvailable, allowTalkingWhenCaptain, persistence,
                 blob>>

----------------------------------------------------------------------------
(* Spec: one run of the room with role changes and the whole command       *)
(* surface; the players stay spectators, as they are when they join.       *)

Next ==
  \/ PlayerJoin
  \/ PlayerLeave
  \/ RoleChange
  \/ CmdMute(MuteArgs)
  \/ CmdUnmute(UnmuteArgs)
  \/ CmdClearmutes
  \/ CmdMutelist

Spec == Init /\ [][Next]_vars

----------------------------------------------------------------------------
(* SpecRead: the operations that only read the store, in a room where the  *)
(* host, who holds the admin role, mutes and clears.                       *)

InitRead ==
  /\ players = <<Host>>
  /\ nextId = 1
  /\ roles = [HostRoles EXCEPT ![0] = {"host", "admin"}]
  /\ rolesAvailable = TRUE
  /\ allowTalkingWhenCaptain = FALSE
  /\ persistence = TRUE
  /\ restoring = NotRestoring
  /\ muteMap = <<>>
  /\ blob = Undefined
  /\ last = Env
  /\ anns = <<>>
  /\ muted = {}

NextRead ==
  \/ PlayerJoin
  \/ PlayerLeave
  \/ CmdMute(IdArgs)
  \/ CmdClearmutes
  \/ CmdMutelist
  \/ Chat
  \/ IsMutedQuery
  \/ Persist

SpecRead == InitRead /\ [][NextRead]_vars

----------------------------------------------------------------------------
(* SpecTeams: the chat policy in a room whose players change team and      *)
(* which restarts.  The roles are as set up at the start: the host holds   *)
(* the admin role.                                                         *)

InitTeams ==
  /\ players = <<Host>>
  /\ nextId = 1
  /\ roles = [HostRoles EXCEPT ![0] = {"host", "admin"}]
  /\ rolesAvailable = TRUE
  /\ allowTalkingWhenCaptain \in BOOLEAN
  /\ persistence = TRUE
  /\ restoring = NotRestoring
  /\ muteMap = <<>>
  /\ blob = Undefined
  /\ last = Env
  /\ anns = <<>>
  /\ muted = {}

NextTeams ==
  \/ PlayerJoin
  \/ PlayerLeave
  \/ TeamChange
  \/ CmdMute(IdArgs)
  \/ CmdUnmute(IdArgs)
  \/ CmdClearmutes
  \/ Chat
  \/ Restart
  \/ Restore

SpecTeams == InitTeams /\ [][NextTeams]_vars

----------------------------------------------------------------------------
(* SpecStore: the mute store by itself.  mutePlayer, removeMute and the    *)
(* persist/restore hooks are applied directly, with PlayerObjects and      *)
(* arguments drawn from bounded sets, in a room of StoreSize players; the  *)
(* unmute command runs on the stores this leaves.                          *)

StoreSize == 3

StoreConns == <<"cA", "cB", "cC", "cD", "cE">>

StoreRoom ==
  updateAdmins(<<Host>> \o [i \in 1..StoreSize |->
    [id |-> i, name |-> NameOf(i), conn |-> StoreConns[i], team |-> 0, admin |-> FALSE]])

\* the players in the room, and the PlayerObjects of a later visit of the
\* same connections
StoreCandidates ==
  {StoreRoom[i] : i \in 2..(StoreSize + 1)} \cup
  {[StoreRoom[i] EXCEPT !.id = @ + StoreSize, !.name = NameOf(StoreRoom[i].id + StoreSize)] :
     i \in 2..(StoreSize + 1)}

StoreArgs ==
  {Num(i) : i \in (-1)..StoreSize} \cup {Frac, NaN, Null, NoArg} \cup IdArgs \cup
  {Str(<<"1">>), Str(<<"a">>), Str(<<"#", "0", "x", "1">>), Str(<<"#", "1", "e", "0">>)}

InitStore ==
  /\ players = StoreRoom
  /\ nextId = StoreSize + 1
  /\ roles = [HostRoles EXCEPT ![0] = {"host", "admin"}]
  /\ rolesAvailable = TRUE
  /\ allowTalkingWhenCaptain = FALSE
  /\ persistence = TRUE
  /\ restoring = NotRestoring
  /\ muteMap = <<>>
  /\ blob = Undefined
  /\ last = Env
  /\ anns = <<>>
  /\ muted = {}

StoreMute ==
  \E p \in StoreCandidates :
    LET r == mutePlayer(muteMap, blob, p)
    IN /\ muteMap' = r.map
       /\ blob' = r.blob
       /\ last' = [Env EXCEPT !.op = "mutePlayer", !.by = p.id, !.size = Len(muteMap)]
       /\ muted' = muted \cup {p.conn}
       /\ anns' = <<>>
       /\ Frame

StoreRemove ==
  \E a \in StoreArgs :
    \E r \in {removeMute(muteMap, blob, a)} :
       /\ muteMap' = r.map
       /\ blob' = r.blob
       /\ last' = [Env EXCEPT !.op = "removeMute", !.arg = a, !.removed = r.removed,
                                !.size = Len(muteMap)]
       /\ muted' = muted \ (MapKeys(muteMap) \ MapKeys(r.map))
       /\ anns' = <<>>
       /\ Frame

\* the host, who holds the admin role, runs !unmute with a mute number or
\* with "#" and the id of a player, in decimal or as a hexadecimal literal
StoreUnmute ==
  \E muteNumber \in {Num(0), HashId(1), Str(<<"#", "0", "x", "2">>)} :
    \E r \in {onCommand1_unmute(muteMap, blob, Host, muteNumber)} :
       /\ muteMap' = r.map
       /\ blob' = r.blob
       /\ anns' = r.anns
       /\ last' = [Ran("unmute", Host.id, muteNumber, r) EXCEPT
                     !.removed = IF isPlayerAllowedToRunCommand(Host)
                                 THEN removeMute(muteMap, blob, muteNumber).removed
                                 ELSE NoSnapshot,
                     !.size = Len(muteMap)]
       /\ muted' = muted \ (MapKeys(muteMap) \ MapKeys(r.map))
       /\ Frame

\* data a run of the plugin saved: serializeMuteMap of the empty store and
\* of a store of one entry
SavedBlobs ==
  {serializeMuteMap(<<>>)} \cup
  {serializeMuteMap(MapSet(<<>>, p.conn, Snapshot(p))) : p \in StoreCandidates}

\* the JSON text {"cA":null}: an object whose member is no snapshot
NullMemberBlob == [t |-> "json", m |-> <<[key |-> "cA", value |-> NoSnapshot]>>]

\* data that no run of the plugin saved: text that is no JSON, the JSON
\* texts null, 7, [] and "", and an object with a null member
CorruptBlobs ==
  {[t |-> "text", m |-> <<>>], [t |-> "null", m |-> <<>>], [t |-> "number", m |-> <<>>],
   [t |-> "list", m |-> <<>>], [t |-> "string", m |-> <<>>], NullMemberBlob}

\* the persistence host hands the data it holds to room.onRestore: nothing,
\* the data of this run, the data of an earlier run or damaged data
StoreRestore ==
  \E data \in {Undefined, blob} \cup SavedBlobs \cup CorruptBlobs :
    /\ muteMap' = handleRestoreData(muteMap, data)
    /\ blob' = data
    /\ muted' = muted \cap MapKeys(muteMap')
    /\ last' = [Env EXCEPT !.op = "restore", !.size = Len(muteMap),
                           !.ret = IF deserializeThrows(data) THEN "throws" ELSE "undefined"]
    /\ anns' = <<>>
    /\ Frame

\* the host, who holds the admin role, runs !mutelist
StoreMutelist ==
  \E r \in {onCommand0_mutelist(muteMap, blob, Host)} :
     /\ muteMap' = r.map
     /\ blob' = r.blob
     /\ anns' = r.anns
     /\ last' = [Ran("mutelist", Host.id, NoArg, r) EXCEPT !.size = Len(muteMap)]
     /\ UNCHANGED muted
     /\ Frame

NextStore ==
  \/ StoreMute
  \/ StoreRemove
  \/ StoreUnmute
  \/ StoreMutelist
  \/ Persist
  \/ StoreRestore

SpecStore == InitStore /\ [][NextStore]_vars

----------------------------------------------------------------------------
(* SpecFaults: the commands in a room where hhm/persistence, which the     *)
(* plugin does not list among its dependencies, is not there to store the  *)
(* data.  The host holds the admin role.                                   *)

InitFaults ==
  /\ players = <<Host>>
  /\ nextId = 1
  /\ roles = [HostRoles EXCEPT ![0] = {"host", "admin"}]
  /\ rolesAvailable = TRUE
  /\ allowTalkingWhenCaptain = FALSE
  /\ persistence = FALSE
  /\ restoring = NotRestoring
  /\ muteMap = <<>>
  /\ blob = Undefined
  /\ last = Env
  /\ anns = <<>>
  /\ muted = {}

NextFaults ==
  \/ PlayerJoin
  \/ PlayerLeave
  \/ RoleChange
  \/ CmdMute(MuteArgs)
  \/ CmdUnmute(UnmuteArgs)
  \/ CmdClearmutes
  \/ CmdMutelist
  \/ Chat

SpecFaults == InitFaults /\ [][NextFaults]_vars

----------------------------------------------------------------------------
(* SpecAdmin: hr/always-one-admin by itself, in a room of up to            *)
(* MaxAdminId visits where admin rights are also given and taken by hand.  *)

MaxAdminId == 3

InitAdmin ==
  /\ players = <<Host>>
  /\ nextId = 1
  /\ roles = HostRoles
  /\ rolesAvailable = TRUE
  /\ allowTalkingWhenCaptain = FALSE
  /\ persistence = TRUE
  /\ restoring = NotRestoring
  /\ muteMap = <<>>
  /\ blob = Undefined
  /\ last = Env
  /\ anns = <<>>
  /\ muted = {}

\* a player joins: the room appends it to the list and fires onPlayerJoin
AdminJoin ==
  /\ nextId <= MaxAdminId
  /\ players' = updateAdmins(Append(players,
       [id |-> nextId, name |-> NameOf(nextId), conn |-> StoreConns[nextId], team |-> 0,
        admin |-> FALSE]))
  /\ nextId' = nextId + 1
  /\ last' = [Env EXCEPT !.op = "join", !.by = nextId]
  /\ UNCHANGED <<roles, rolesAvailable, allowTalkingWhenCaptain, persistence, restoring, muteMap, blob,
                 anns, muted>>

\* a player leaves: the room removes it from the list and fires onPlayerLeave
AdminLeave ==
  \E p \in InRoomPlayers :
    /\ p.id # 0
    /\ players' = updateAdmins(SelectSeq(players, LAMBDA q : q.id # p.id))
    /\ last' = [Env EXCEPT !.op = "leave", !.by = p.id]
    /\ UNCHANGED <<nextId, roles, rolesAvailable, allowTalkingWhenCaptain, persistence, restoring,
                   muteMap, blob, anns, muted>>

\* an admin or the host gives admin rights to a player or takes them away;
\* the plugin has no handler for it
AdminChange ==
  \E p \in InRoomPlayers :
    /\ players' = [i \in 1..Len(players) |->
                     IF players[i].id = p.id THEN [players[i] EXCEPT !.admin = ~@]
                     ELSE players[i]]
    /\ last' = [Env EXCEPT !.op = "adminchange", !.by = p.id]
    /\ UNCHANGED <<nextId, roles, rolesAvailable, allowTalkingWhenCaptain, persistence, restoring,
                   muteMap, blob, anns, muted>>

NextAdmin ==
  \/ AdminJoin
  \/ AdminLeave
  \/ AdminChange

SpecAdmin == InitAdmin /\ [][NextAdmin]_vars

----------------------------------------------------------------------------
(* SpecParse: parseId by itself, applied to every string of up to MaxLen   *)
(* characters of ParseChars.                                               *)

MaxLen == 3

ParseChars == {"#", "0", "1", "a", " ", "-", "x", "e", ".", "\t"}

\* longer texts that the unary plus reads as a number
ParseWords ==
  {<<"I", "n", "f", "i", "n", "i", "t", "y">>, <<"#", "I", "n", "f", "i", "n", "i", "t", "y">>,
   <<"#", "0", "x", "1">>, <<"#", "1", "e", "0">>, <<"0", "b", "1", "1">>,
   <<"+", "1">>, <<"1", "e", "3", "0", "9">>, <<"1", "e", "-", "4", "0", "0">>}

ParseStrings == UNION {[1..n -> ParseChars] : n \in 0..MaxLen} \cup ParseWords

InitParse ==
  /\ players = <<Host>>
  /\ nextId = 1
  /\ roles = HostRoles
  /\ rolesAvailable = TRUE
  /\ allowTalkingWhenCaptain = FALSE
  /\ persistence = TRUE
  /\ restoring = NotRestoring
  /\ muteMap = <<>>
  /\ blob = Undefined
  /\ last \in {[Env EXCEPT !.arg = Str(s)] : s \in ParseStrings}
  /\ anns = <<>>
  /\ muted = {}

ParseId ==
  /\ last.op = "env"
  /\ last' = [last EXCEPT !.op = "parseId", !.val = parseId(last.arg)]
  /\ UNCHANGED <<muteMap, blob, anns, muted>>
  /\ Frame

NextParse == ParseId

SpecParse == InitParse /\ [][NextParse]_vars

----------------------------------------------------------------------------
(* Properties.  They state the roles, the store and the room in their own  *)
(* terms, not through the operators that model the handlers.               *)

RoleSet(roleList) == {roleList[i] : i \in 1..Len(roleList)}

\* the player holds one of the allowed roles and the role service is there
Authorized(id) == rolesAvailable /\ (roles[id] \cap RoleSet(allowedRoles)) # {}

\* the player holds one of the protected roles
HoldsProtectedRole(id) == (roles[id] \cap RoleSet(protectedRoles)) # {}

\* the in-room player with that id
PlayerWithId(id) == players[CHOOSE i \in 1..Len(players) : players[i].id = id]

\* the player an argument of !mute names: "#<n>" or "<n>" with n the id of a
\* player in the room
Names(arg, p) ==
  /\ arg.t = "str"
  /\ \/ arg.s = <<DigitChars[p.id + 1]>>
     \/ arg.s = <<"#", DigitChars[p.id + 1]>>

Keys(m) == [i \in 1..Len(m) |-> m[i].key]

Range(f) == {f[i] : i \in DOMAIN f}

RemoveAt(m, i) == SubSeq(m, 1, i - 1) \o SubSeq(m, i + 1, Len(m))

\* two stores hold the same identities with the same snapshots
SameMapping(a, b) ==
  /\ {a[i].key : i \in 1..Len(a)} = {b[i].key : i \in 1..Len(b)}
  /\ \A i \in 1..Len(a) : \A j \in 1..Len(b) :
       a[i].key = b[j].key => a[i].value = b[j].value

\* first in the player list among the players of its team, red or blue
FirstOfTeam(id) ==
  \E i \in 1..Len(players) :
    /\ players[i].id = id
    /\ players[i].team \in {1, 2}
    /\ \A j \in 1..(i - 1) : players[j].team # players[i].team

Immunity(to) == Ann("This player has immunity for mutes.", "", to, Red)

MuteNotice(to) == Ann(muteMessage, "", to, Red)

\* C1 as stated: after a mute command that an authorized actor aimed at a
\* player x in the room who holds a protected role, an error announcement
\* has been sent and x's identity is not in the mute store.
C1_ProtectedNeverInStore ==
  \A x \in InRoomPlayers :
    (last.op = "mute" /\ Names(last.arg, x) /\ HoldsProtectedRole(x.id)
       /\ Authorized(last.by)) =>
      (anns # <<>> /\ anns[1].color = Red /\ x.conn \notin {muteMap[i].key : i \in 1..Len(muteMap)})

\* C1 amended: a mute command run by an authorized actor and aimed at a
\* player x in the room who holds a protected role sends the immunity error
\* to the actor and nothing else, and leaves the mute store and the persisted
\* data as they were: x is not added.
C1_ProtectedNotAdded ==
  [][\A x \in InRoomPlayers :
       (last'.op = "mute" /\ Names(last'.arg, x) /\ HoldsProtectedRole(x.id)
          /\ Authorized(last'.by)) =>
         (anns' = <<Immunity(last'.by)>> /\ muteMap' = muteMap /\ blob' = blob)]_vars

C1_Witness ==
  \E x \in InRoomPlayers :
    /\ last.op = "mute" /\ Names(last.arg, x) /\ HoldsProtectedRole(x.id)
    /\ Authorized(last.by)
    /\ anns = <<Immunity(last.by)>>
    /\ muteMap # <<>>
    /\ x.conn \notin {muteMap[i].key : i \in 1..Len(muteMap)}

\* C2: a command run by an actor who is not authorized (no allowed role, or
\* no role service) sends no announcement and leaves the mute store and the
\* persisted data unchanged, whatever its argument.
C2_DeniedIsSilent ==
  [][(last'.op \in {"mute", "unmute", "clearmutes", "mutelist"} /\ ~Authorized(last'.by)) =>
       (anns' = <<>> /\ muteMap' = muteMap /\ blob' = blob)]_vars

C2_Witness ==
  /\ last.op = "clearmutes"
  /\ ~Authorized(last.by)
  /\ roles[last.by] = {}
  /\ anns = <<>>
  /\ muteMap # <<>>

\* C3: whenever a mute, unmute or clearmutes command has changed the mute
\* store, the data held by the persistence host decodes to the store the
\* command leaves.
C3_WriteThrough ==
  [][(last'.op \in {"mute", "unmute", "clearmutes"} /\ muteMap' # muteMap) =>
       (blob'.t = "json" /\ SameMapping(blob'.m, muteMap'))]_vars

\* C4 as stated: every player in the room whose identity was muted by a
\* command and not removed since is reported muted and has chat suppressed.
C4_MutedAlwaysSuppressed ==
  \A p \in InRoomPlayers :
    p.conn \in muted =>
      (isMuted(muteMap, p) /\ handlePlayerChat(muteMap, blob, p).ret = "false")

\* C4 amended: when the host has no room.onRestore call of a restart left to
\* make, every player in the room whose identity was muted by a command and
\* not removed since (by unmute, clearmutes or a restore without it) is
\* reported muted by isMuted, whatever its id, and has chat suppressed
\* unless allowTalkingWhenCaptain is enabled and the player is first of the
\* red or of the blue team.
C4_MuteFollowsIdentity ==
  \A p \in InRoomPlayers :
    (restoring = NotRestoring /\ p.conn \in muted) =>
      /\ isMuted(muteMap, p)
      /\ \/ handlePlayerChat(muteMap, blob, p).ret = "false"
         \/ (allowTalkingWhenCaptain /\ FirstOfTeam(p.id))

\* a player who came back under another id is suppressed
C4_Witness ==
  /\ last.op = "chat"
  /\ last.ret = "false"
  /\ LET p == PlayerWithId(last.by) IN
       /\ p.conn \in muted
       /\ \E i \in 1..Len(muteMap) :
            muteMap[i].key = p.conn /\ muteMap[i].value.id # p.id

\* C5: a chat message of a sender whose identity is no key of the mute store
\* is not suppressed and no announcement is sent, whatever the option and
\* the sender's place in a team.
C5_NotMutedAllowed ==
  (last.op = "chat" /\ PlayerWithId(last.by).conn \notin {muteMap[i].key : i \in 1..Len(muteMap)}) =>
    (last.ret # "false" /\ anns = <<>>)

C5_Witness ==
  /\ last.op = "chat"
  /\ PlayerWithId(last.by).conn \notin {muteMap[i].key : i \in 1..Len(muteMap)}
  /\ muteMap # <<>>
  /\ allowTalkingWhenCaptain
  /\ FirstOfTeam(last.by)
  /\ last.ret = "undefined"

\* C6: with allowTalkingWhenCaptain off, a chat message of a sender whose
\* identity is in the mute store is suppressed (the hook returns false) and
\* the mute notice goes to the sender alone, captain or not.
C6_MutedSuppressedWhenOptionOff ==
  (last.op = "chat" /\ ~allowTalkingWhenCaptain
     /\ PlayerWithId(last.by).conn \in {muteMap[i].key : i \in 1..Len(muteMap)}) =>
    (last.ret = "false" /\ anns = <<MuteNotice(last.by)>>)

C6_Witness ==
  /\ last.op = "chat"
  /\ ~allowTalkingWhenCaptain
  /\ PlayerWithId(last.by).conn \in {muteMap[i].key : i \in 1..Len(muteMap)}
  /\ FirstOfTeam(last.by)
  /\ last.ret = "false"

\* C7: with allowTalkingWhenCaptain on, a chat message of a muted sender is
\* let through, without notice, exactly when the sender is at that moment the
\* first player of the list in team 1 or the first in team 2; otherwise it is
\* suppressed with the mute notice.
C7_CaptainException ==
  (last.op = "chat" /\ allowTalkingWhenCaptain
     /\ PlayerWithId(last.by).conn \in {muteMap[i].key : i \in 1..Len(muteMap)}) =>
    IF FirstOfTeam(last.by)
    THEN last.ret # "false" /\ anns = <<>>
    ELSE last.ret = "false" /\ anns = <<MuteNotice(last.by)>>

\* a muted player of the blue team is suppressed because another player is
\* ahead of it in that team
C7_Witness ==
  /\ last.op = "chat"
  /\ allowTalkingWhenCaptain
  /\ PlayerWithId(last.by).conn \in {muteMap[i].key : i \in 1..Len(muteMap)}
  /\ PlayerWithId(last.by).team = 2
  /\ ~FirstOfTeam(last.by)
  /\ last.ret = "false"

\* the text of a mute number
IsNumberText(arg) ==
  arg.t = "str" /\ arg.s # <<>> /\ \A i \in 1..Len(arg.s) : IsDigit(arg.s[i])

\* C8: an unmute command of an authorized actor whose argument is the text
\* of a mute number i below the size of the store removes the i-th entry and
\* no other, tells the actor "Player <name> unmuted." and tells the player
\* in the room with that identity, if there is one.
C8_UnmuteByNumberText ==
  [][(last'.op = "unmute" /\ Authorized(last'.by) /\ IsNumberText(last'.arg)
        /\ DigitsVal(last'.arg.s) < Len(muteMap)) =>
       LET i == DigitsVal(last'.arg.s) + 1 IN
         /\ muteMap' = RemoveAt(muteMap, i)
         /\ anns' # <<>>
         /\ anns'[1] = Ann("Player unmuted.", muteMap[i].value.name, last'.by, Green)]_vars

\* C9: removeMute with a number: an integer i with 0 <= i < size removes the
\* i-th entry in order, returns it and leaves the others in their order; any
\* other number returns null and leaves the store as it was.
C9_RemoveByIndex ==
  [][(last'.op = "removeMute" /\ last'.arg.t \in {"num", "frac", "nan"}) =>
       IF last'.arg.t = "num" /\ last'.arg.n >= 0 /\ last'.arg.n < Len(muteMap)
       THEN /\ muteMap' = RemoveAt(muteMap, last'.arg.n + 1)
            /\ last'.removed = muteMap[last'.arg.n + 1].value
       ELSE /\ muteMap' = muteMap
            /\ last'.removed = NoSnapshot]_vars

\* the end of the scenario: of [A, B, C], removeMute(1) twice leaves [A], and
\* the second call has removed C
C9_Witness ==
  /\ last.op = "removeMute"
  /\ last.arg = Num(1)
  /\ last.removed.conn = "cC"
  /\ Keys(muteMap) = <<"cA">>
  /\ "cB" \notin muted

\* C10: decoding the encoding of the store gives the same identities with
\* the same snapshots.
C10_RoundTrip ==
  SameMapping(deserializeMuteMap(serializeMuteMap(muteMap)), muteMap)

C10_Witness ==
  /\ last.op = "removeMute"
  /\ last.removed # NoSnapshot
  /\ Len(muteMap) >= 2
  /\ \E i \in 1..Len(muteMap) : muteMap[i].value.id > StoreSize
  /\ SameMapping(deserializeMuteMap(serializeMuteMap(muteMap)), muteMap)

\* C11: room.onRestore(undefined) leaves the store as it was, keys,
\* snapshots and order; room.onRestore(data) with data that serializeMuteMap
\* produced makes the store the mapping the data encodes, in its order: an
\* entry of the store that the data does not hold is gone.
C11_RestoreReplaces ==
  [][(last'.op = "restore" /\ blob'.t \in {"undefined", "json"}) =>
       IF blob'.t = "undefined"
       THEN muteMap' = muteMap
       ELSE /\ Keys(muteMap') = Keys(blob'.m)
            /\ SameMapping(muteMap', blob'.m)]_vars

\* a store of three entries was restored from the data of an earlier run that
\* holds one of them
C11_Witness ==
  /\ last.op = "restore"
  /\ last.size = 3
  /\ blob.t = "json"
  /\ Len(blob.m) = 1
  /\ Keys(muteMap) = Keys(blob.m)

\* no identity token is the key of two entries
UniqueKeys(m) == \A i \in 1..Len(m) : \A j \in 1..Len(m) : m[i].key = m[j].key => i = j

\* the PlayerObject that mutePlayer was given
MutedCandidate(id) == CHOOSE p \in StoreCandidates : p.id = id

\* C12: an identity token is the key of at most one entry of the store, and
\* mutePlayer for a player whose identity is in the store leaves the number
\* of entries as it was, with that identity still in the store and its
\* snapshot that of the player just muted.
C12_MuteIdempotent ==
  [][/\ UniqueKeys(muteMap')
     /\ (last'.op = "mutePlayer" /\ MutedCandidate(last'.by).conn \in Range(Keys(muteMap))) =>
          LET p == MutedCandidate(last'.by) IN
            /\ Len(muteMap') = Len(muteMap)
            /\ \E i \in 1..Len(muteMap') :
                 /\ muteMap'[i].key = p.conn
                 /\ muteMap'[i].value = [id |-> p.id, name |-> p.name, conn |-> p.conn]]_vars

\* the player of a later visit was muted while its identity was in a store of
\* two entries, and the store has two entries
C12_Witness ==
  /\ last.op = "mutePlayer"
  /\ last.by > StoreSize
  /\ last.size = 2
  /\ Len(muteMap) = 2
  /\ \E i \in 1..2 : muteMap[i].value.id = last.by

\* the position of an identity in the iteration order of the store, which is
\* its mute number in the mutelist output plus one
PositionOf(m, conn) == CHOOSE i \in 1..Len(m) : m[i].key = conn

\* C18 as stated: mutePlayer for a player whose identity is in the store
\* next to other entries re-inserts it: the identity is the last entry
\* afterwards, so that its mute number changes unless it was the last one.
C18_RemuteMovesToEnd ==
  [][(last'.op = "mutePlayer" /\ Len(muteMap) >= 2
        /\ MutedCandidate(last'.by).conn \in Range(Keys(muteMap))) =>
       LET c == MutedCandidate(last'.by).conn IN
         /\ PositionOf(muteMap', c) = Len(muteMap')
         /\ (PositionOf(muteMap, c) < Len(muteMap) => Keys(muteMap') # Keys(muteMap))]_vars

\* C18 amended: mutePlayer for a player whose identity is in the store next
\* to other entries overwrites the snapshot in place: every identity keeps
\* its position, so the mute numbers of the mutelist output are the same
\* before and after.
C18_RemuteKeepsOrder ==
  [][(last'.op = "mutePlayer" /\ Len(muteMap) >= 2
        /\ MutedCandidate(last'.by).conn \in Range(Keys(muteMap))) =>
       /\ Keys(muteMap') = Keys(muteMap)
       /\ muteMap'[PositionOf(muteMap, MutedCandidate(last'.by).conn)].value.id = last'.by]_vars

\* the player of a later visit was muted while its identity was the first of
\* three entries, and it is still the first of three
C18_Witness ==
  /\ last.op = "mutePlayer"
  /\ last.by > StoreSize
  /\ last.size = 3
  /\ Len(muteMap) = 3
  /\ muteMap[1].value.id = last.by

\* the text of an integer: decimal digits, with or without a minus sign
IsIntegerText(s) ==
  \/ (s # <<>> /\ AllDigits(s))
  \/ (Len(s) >= 2 /\ s[1] = "-" /\ AllDigits(Tail(s)))

IntegerOf(s) == IF s[1] = "-" THEN 0 - DigitsVal(Tail(s)) ELSE DigitsVal(s)

\* C13: parseId of the text of an integer n is n, parseId of "#" followed by
\* the text of an integer n is n, and parseId of every other string, the
\* empty string and "#" alone included, is null.
C13_ParseIdExact ==
  (last.op = "parseId") =>
    LET s == last.arg.s IN
      last.val = IF IsIntegerText(s) THEN Num(IntegerOf(s))
                 ELSE IF s # <<>> /\ s[1] = "#" /\ IsIntegerText(Tail(s))
                      THEN Num(IntegerOf(Tail(s)))
                 ELSE Null

\* C14: room.onRestore with data that does not encode a mapping from
\* identities to snapshots (text that is no JSON, or the JSON text of null,
\* of a number, of a list, of a string or of an object with a null member)
\* either leaves the store as it was or leaves it empty.
C14_NoCorruptRestore ==
  [][(last'.op = "restore" /\ blob' \in CorruptBlobs) =>
       (muteMap' = muteMap \/ muteMap' = <<>>)]_vars

\* C15: when hhm/persistence fails to store the data, a mute or unmute
\* command that changes the store still returns without raising and sends
\* its success announcement to the actor.
C15_PersistFailureHidden ==
  [][(last'.op \in {"mute", "unmute"} /\ ~persistence /\ muteMap' # muteMap) =>
       /\ last'.ret # "throws"
       /\ anns' # <<>>
       /\ anns'[1].to = last'.by
       /\ anns'[1].color = Green]_vars

\* the argument resolves to no player in the room
NamesNobody(arg) == ~Found(getPlayer(parseId(arg)))

\* the argument of an unmute command that removes nothing: text that is
\* neither a mute number nor "#<id>", a mute number at or beyond the size of
\* the store, "#<id>" of nobody in the room, "#<id>" of a player in the room
\* whose identity is not in the store
UnmuteInputError(arg) ==
  \/ arg.t = "str" /\ ~IsNumberText(arg) /\ ~(arg.s # <<>> /\ arg.s[1] = "#")
  \/ arg.t = "num" /\ (arg.n < 0 \/ arg.n >= Len(muteMap))
  \/ IsNumberText(arg) /\ DigitsVal(arg.s) >= Len(muteMap)
  \/ StartsWithHash(arg) /\ NamesNobody(arg)
  \/ StartsWithHash(arg) /\ ~NamesNobody(arg)
       /\ getPlayer(parseId(arg)).conn \notin Range(Keys(muteMap))

\* C16: a mute command of an authorized actor whose argument names no
\* player in the room, and an unmute command of an authorized actor whose
\* argument removes nothing, send one error announcement, to the actor,
\* return without raising and leave the store and the persisted data as
\* they were.
C16_InputErrorsLocal ==
  [][(\/ (last'.op = "mute" /\ Authorized(last'.by) /\ NamesNobody(last'.arg))
      \/ (last'.op = "unmute" /\ Authorized(last'.by) /\ UnmuteInputError(last'.arg))) =>
       /\ Len(anns') = 1
       /\ anns'[1].to = last'.by
       /\ anns'[1].color = Red
       /\ last'.ret # "throws"
       /\ muteMap' = muteMap
       /\ blob' = blob]_vars

\* an authorized actor asked to unmute "#1", a player in the room whose
\* identity is not in the store while another one is
C16_Witness ==
  /\ last.op = "unmute"
  /\ last.arg = HashId(1)
  /\ Authorized(last.by)
  /\ InRoom(1)
  /\ muteMap # <<>>
  /\ PlayerWithId(1).conn \notin Range(Keys(muteMap))
  /\ Len(anns) = 1
  /\ anns[1].color = Red

\* positions of the players other than the host
NonHostAt(list) == {i \in 1..Len(list) : list[i].id # 0}

AdminsAt(list) == {i \in NonHostAt(list) : list[i].admin}

\* C17: when onPlayerJoin or onPlayerLeave has run and a player other than
\* the host is in the room, a player other than the host is admin; when the
\* player who left was the only such admin, the first of the remaining
\* players other than the host is the one who is admin.
C17_AdminFailover ==
  [][(last'.op \in {"join", "leave"}) =>
       /\ (NonHostAt(players') # {} => AdminsAt(players') # {})
       /\ (last'.op = "leave" /\ NonHostAt(players') # {}
             /\ \A i \in AdminsAt(players) : players[i].id = last'.by) =>
            AdminsAt(players') = {CHOOSE i \in NonHostAt(players') :
                                    \A j \in NonHostAt(players') : i <= j}]_vars

\* the first player, the only admin, has left a room of three and the
\* second player has become admin, the third has not
C17_Witness ==
  /\ last.op = "leave"
  /\ last.by = 1
  /\ Len(players) = 3
  /\ players[2].id = 2 /\ players[2].admin
  /\ players[3].id = 3 /\ ~players[3].admin

\* C19: updateAdmins leaves the player list as it is when no player other
\* than the host is in it or one of them is admin; otherwise it changes one
\* player, who is not the host, from not admin to admin; it never changes
\* the host, never takes admin away, and a second call changes nothing.
C19_UpdateAdminsMinimal ==
  LET u == updateAdmins(players)
      changed == {i \in 1..Len(players) : u[i] # players[i]}
  IN /\ Len(u) = Len(players)
     /\ (NonHostAt(players) = {} \/ AdminsAt(players) # {}) => u = players
     /\ (NonHostAt(players) # {} /\ AdminsAt(players) = {}) =>
          /\ Cardinality(changed) = 1
          /\ \A i \in changed : u[i] = [players[i] EXCEPT !.admin = TRUE]
     /\ changed \subseteq NonHostAt(players)
     /\ \A i \in 1..Len(players) : players[i].admin => u[i].admin
     /\ updateAdmins(u) = u

\* admin rights were taken from the last admin of a room of three players:
\* the rule has somebody to promote
C19_Witness ==
  /\ last.op = "adminchange"
  /\ Cardinality(NonHostAt(players)) = 3
  /\ AdminsAt(players) = {}
  /\ updateAdmins(players) # players

\* C20: the chat hook, room.isMuted and the mutelist command leave the
\* store and the persisted data as they were, and room.onPersist leaves the
\* store as it was and hands out its encoding; the mutelist command of an
\* authorized actor sends "No muted players." to the actor when the store
\* is empty, and otherwise sends the actor the list with one line per entry,
\* numbered from 0 in the order of the store, with the name of its snapshot.
C20_ReadOnly ==
  [][/\ (last'.op \in {"chat", "isMuted", "mutelist"}) => (muteMap' = muteMap /\ blob' = blob)
     /\ (last'.op = "persist") =>
          (muteMap' = muteMap /\ blob'.t = "json" /\ SameMapping(blob'.m, muteMap))
     /\ (last'.op = "mutelist" /\ Authorized(last'.by)) =>
          IF muteMap = <<>>
          THEN anns' = <<Ann("No muted players.", "", last'.by, Red)>>
          ELSE /\ \A i \in 1..Len(anns') : anns'[i].to = last'.by
               /\ \E i \in 1..Len(anns') :
                    /\ Len(anns'[i].lines) = Len(muteMap)
                    /\ \A k \in 1..Len(muteMap) :
                         anns'[i].lines[k] = [index |-> k - 1, name |-> muteMap[k].value.name]]_vars

\* an authorized actor listed a store of two entries
C20_Witness ==
  /\ last.op = "mutelist"
  /\ Authorized(last.by)
  /\ Len(muteMap) = 2
  /\ Len(anns) = 2
  /\ Len(anns[2].lines) = 2
  /\ anns[2].lines[2].index = 1

====
